---------------------------- MODULE Spec2Model ----------------------------
(***************************************************************************)
(* Model of discord-ext-slash_parser: the single-value resolver            *)
(* (utils._run_converters), the multi-value parser                         *)
(* (converters.StringParser.transform) and the variadic wrapper            *)
(* (converters.VariadicArgs.transform).                                    *)
(*                                                                         *)
(* Strings are sequences of one-character strings.  Spec is a StringParser *)
(* object and VariadicSpec a VariadicArgs object, constructed in the       *)
(* initial state; every call of transform runs as a sequence of steps, one *)
(* per awaited converter invocation.                                       *)
(***************************************************************************)
EXTENDS Integers, Sequences, FiniteSets, TLC

\* ------------------------------------------------------------------ bounds
MaxTokens == 3       \* most tokens joined into one argument
MaxConverters == 2   \* longest configured converter list
MaxCount == 2        \* largest value given to min / max
MaxUnion == 3        \* most member types of one union descriptor
MaxDescriptors == 2  \* longest descriptor list handed to a constructor
MaxCallTokens == 2   \* most tokens in the argument of a concurrent call

\* --------------------------------------------------------------- alphabet
SplitBy == " "

\* The words the arguments are written with: "", "0", "1", "11" and "x".
Vocabulary == {<<>>, <<"0">>, <<"1">>, <<"1", "1">>, <<"x">>}

RECURSIVE WordSeqsOfLen(_)
WordSeqsOfLen(n) ==
    IF n = 0 THEN {<<>>}
    ELSE {Append(ws, w) : ws \in WordSeqsOfLen(n - 1), w \in Vocabulary}

RECURSIVE Join(_)
Join(ws) ==
    IF Len(ws) = 1 THEN ws[1]
    ELSE Join(SubSeq(ws, 1, Len(ws) - 1)) \o <<SplitBy>> \o ws[Len(ws)]

\* The argument strings the host passes to transform.
Arguments == {Join(ws) : ws \in UNION {WordSeqsOfLen(n) : n \in 1..MaxTokens}}

\* ---------------------------------------------------------- python values
NoneVal == [type |-> "None", n |-> 0, s |-> <<>>]
IntVal(k) == [type |-> "int", n |-> k, s |-> <<>>]
StrVal(t) == [type |-> "str", n |-> 0, s |-> t]

\* Python truthiness of a converted value: None, 0 and "" are falsy.
Truthy(v) ==
    \/ v.type = "int" /\ v.n # 0
    \/ v.type = "str" /\ v.s # <<>>

NoError == [kind |-> "None", value |-> <<>>, transformer |-> 0]
NotAnInteger(value, transformer) ==
    [kind |-> "NotAnInteger", value |-> value, transformer |-> transformer]

\* Optional[int]: <<>> is None, <<k>> is the integer k.
OptInts == {<<>>} \cup {<<k>> : k \in 0..MaxCount}
OptTruthy(o) == o # <<>> /\ o[1] # 0

\* ------------------------------------------------------------ str.split
RECURSIVE SplitAcc(_, _, _)
SplitAcc(s, cur, acc) ==
    IF s = <<>> THEN Append(acc, cur)
    ELSE IF Head(s) = SplitBy
         THEN SplitAcc(Tail(s), <<>>, Append(acc, cur))
         ELSE SplitAcc(Tail(s), Append(cur, Head(s)), acc)

Split(s) == SplitAcc(s, <<>>, <<>>)

\* ------------------------------------------------------------ converters
Digit(c) == IF c = "1" THEN 1 ELSE 0

RECURSIVE Decimal(_)
Decimal(t) ==
    IF t = <<>> THEN 0
    ELSE Decimal(SubSeq(t, 1, Len(t) - 1)) * 10 + Digit(t[Len(t)])

\* int(argument) raises ValueError on "" and on any non-digit.
IsIntLiteral(t) == t # <<>> /\ \A p \in 1..Len(t) : t[p] \in {"0", "1"}

IntegerConverter(argument, self) ==
    IF IsIntLiteral(argument)
    THEN [raised |-> FALSE, value |-> IntVal(Decimal(argument)), error |-> NoError]
    ELSE [raised |-> TRUE, value |-> NoneVal,
          error |-> NotAnInteger(argument, self)]

StringConverter(argument, self) ==
    [raised |-> FALSE, value |-> StrVal(argument), error |-> NoError]

Converters == {"IntegerConverter", "StringConverter"}

\* One awaited instance.transform(interaction, value); self is the position
\* of the converter in the list (the instance built for that iteration).
Invoke(converter, value, self) ==
    IF converter = "IntegerConverter"
    THEN IntegerConverter(value, self)
    ELSE StringConverter(value, self)

RECURSIVE ListsOfLen(_)
ListsOfLen(n) ==
    IF n = 0 THEN {<<>>}
    ELSE {Append(l, c) : l \in ListsOfLen(n - 1), c \in Converters}

\* self.converters after _get_converters: one up to MaxConverters converters
ConverterLists == UNION {ListsOfLen(n) : n \in 1..MaxConverters}

\* ----------------------------------------------------------- _get_converters
\* The types a descriptor is written with.  "object" is a class that is
\* neither a known type nor a Converter or Transform.
Atoms == {"int", "Member", "User", "Role", "Colour", "object"}

\* A descriptor is the sequence of its member types: one type for a plain
\* class, two or more distinct types for a typing.Union (a Union is flat and
\* holds no type twice).
RECURSIVE DescriptorsOfLen(_)
DescriptorsOfLen(n) ==
    IF n = 0 THEN {<<>>}
    ELSE {Append(d, a) : d \in DescriptorsOfLen(n - 1), a \in Atoms}

Distinct(d) == \A p, q \in 1..Len(d) : p # q => d[p] # d[q]

Descriptors ==
    {d \in UNION {DescriptorsOfLen(n) : n \in 1..MaxUnion} : Distinct(d)}

RECURSIVE DescriptorListsOfLen(_)
DescriptorListsOfLen(n) ==
    IF n = 0 THEN {<<>>}
    ELSE {Append(l, d) : l \in DescriptorListsOfLen(n - 1), d \in Descriptors}

DescriptorLists == UNION {DescriptorListsOfLen(n) : n \in 1..MaxDescriptors}

\* _unpack_union: the members of a Union, [] for anything else.
UnpackUnion(maybe_union) ==
    IF Len(maybe_union) >= 2 THEN maybe_union ELSE <<>>

\* "all(uitem in (Member, Role) or uitem in (User, Role) for uitem in union_items)"
IsMentionable(union_items) ==
    \A p \in 1..Len(union_items) :
        \/ union_items[p] \in {"Member", "Role"}
        \/ union_items[p] \in {"User", "Role"}

MentionableConverters == <<"MemberConverter", "RoleConverter", "UserConverter">>

\* discord.app_commands.transformers.BUILT_IN_TRANSFORMERS: the option type
\* of the library's transformer for a type.
LibraryBuiltIn == {"int", "User", "Member", "Role"}

LibraryOptionType(item) ==
    IF item = "int" THEN "integer"
    ELSE IF item = "Role" THEN "role"
    ELSE "user"

\* converter_from_appcommandoptiontype
ConverterFromOptionType(arg_type) ==
    IF arg_type = "integer" THEN <<"IntegerConverter">>
    ELSE IF arg_type = "user" THEN <<"MemberConverter">>
    ELSE <<"RoleConverter">>

\* converters.BUILT_IN_TRANSFORMERS: this package's table joined to the library's
BuiltIn == {"Colour"} \cup LibraryBuiltIn

TypeError == [ok |-> FALSE, out |-> <<>>]
Valid(out) == [ok |-> TRUE, out |-> out]

\* One pass of the loop for an item that is no Union.
PlainConverters(item) ==
    IF item \notin BuiltIn THEN TypeError
    ELSE IF item \in LibraryBuiltIn
         THEN Valid(ConverterFromOptionType(LibraryOptionType(item)))
    ELSE Valid(<<"ColourConverter">>)

\* _get_converters(union_items): the recursive call on the members of a Union.
RECURSIVE UnionConverters(_)
UnionConverters(union_items) ==
    IF union_items = <<>> THEN Valid(<<>>)
    ELSE LET first == PlainConverters(Head(union_items))
             rest == UnionConverters(Tail(union_items))
         IN IF first.ok /\ rest.ok THEN Valid(first.out \o rest.out)
            ELSE TypeError

\* One pass of _get_converters' loop: what the item adds to valid_converters.
ItemConverters(item) ==
    IF UnpackUnion(item) # <<>>
    THEN IF IsMentionable(UnpackUnion(item))
         THEN Valid(MentionableConverters)
         ELSE UnionConverters(UnpackUnion(item))
    ELSE PlainConverters(item[1])

\* ----------------------------------------------------------------- dicts
\* A Python dict: a sequence of entries in insertion order; assigning to an
\* existing key keeps its position.
Keys(d) == {d[p].key : p \in 1..Len(d)}

DictSet(d, k, v) ==
    IF k \in Keys(d)
    THEN [p \in 1..Len(d) |-> IF d[p].key = k THEN [key |-> k, val |-> v] ELSE d[p]]
    ELSE Append(d, [key |-> k, val |-> v])

\* ParseResult.converted
Converted(success) == [p \in 1..Len(success) |-> success[p].val.value]

\* ----------------------------------------------------------------- state
VARIABLES
    cls,              \* class of the parser object: StringParser or VariadicArgs
    converters,       \* self.converters
    only_values,      \* self.only_values
    fail_on_error,    \* self.fail_on_error
    min,              \* self.min (VariadicArgs)
    max,              \* self.max (VariadicArgs)
    pc,               \* position of the running call
    argument,         \* the argument of the running call
    values,           \* argument.split(self.split_by), the tokens iterated
    i,                \* index of the token being processed
    success,          \* transform's local success dict
    failed,           \* transform's local failed dict
    value_errors,     \* transform's local value_errors dict
    j,                \* index of the next converter in _run_converters' loop
    converted_value,  \* _run_converters' local
    used_converter,   \* _run_converters' local
    error,            \* _run_converters' local
    res,              \* outcome of StringParser.transform
    result,           \* outcome of the call (returned value or raised error)
    calls,            \* history: the converter invocations of the running call
    descriptors,      \* the converters list handed to __init__
    valid_converters, \* _get_converters' local
    normalized,       \* history: what each processed descriptor contributed
    frames,           \* the coroutine frame of each concurrent transform call
    cdicts            \* the success / failed / errors dicts of those frames

config == <<cls, converters, only_values, fail_on_error, min, max>>
locals == <<j, converted_value, used_converter, error>>
dicts == <<success, failed, value_errors>>
construction == <<descriptors, valid_converters, normalized>>
concurrent == <<frames, cdicts>>
vars == <<cls, converters, only_values, fail_on_error, min, max, pc, argument,
          values, i, success, failed, value_errors, j, converted_value,
          used_converter, error, res, result, calls, descriptors,
          valid_converters, normalized, frames, cdicts>>

NoResult ==
    [kind |-> "none", success |-> <<>>, failed |-> <<>>, errors |-> <<>>,
     values |-> <<>>, what |-> ""]

\* No call has left anything behind.
NoCall ==
    /\ argument = <<>>
    /\ values = <<>>
    /\ i = 0
    /\ success = <<>>
    /\ failed = <<>>
    /\ value_errors = <<>>
    /\ j = 0
    /\ converted_value = NoneVal
    /\ used_converter = "None"
    /\ error = NoError
    /\ res = NoResult
    /\ result = NoResult
    /\ calls = <<>>

\* No call is running.
Idle == pc = "idle" /\ NoCall

\* __init__ is over; _get_converters' frame is gone.
Built ==
    /\ descriptors = <<>>
    /\ valid_converters = <<>>
    /\ normalized = <<>>

\* The invocations of transform that may be in flight together.
Calls == {1, 2}

NoDicts == [success |-> <<>>, failed |-> <<>>, errors |-> <<>>]

\* The configuration an invocation sees on self.
Self ==
    [converters |-> converters, split_by |-> SplitBy,
     only_values |-> only_values, fail_on_error |-> fail_on_error]

NoFrame ==
    [pc |-> "idle", argument |-> <<>>, values |-> <<>>, i |-> 0, j |-> 0,
     converted_value |-> NoneVal, used_converter |-> "None",
     error |-> NoError, result |-> NoResult, log |-> <<>>,
     self |-> [converters |-> <<>>, split_by |-> "", only_values |-> FALSE,
               fail_on_error |-> FALSE],
     overlapped |-> FALSE]

\* No concurrent invocation has been made.
Quiet ==
    /\ frames = [c \in Calls |-> NoFrame]
    /\ cdicts = [c \in Calls |-> NoDicts]

\* StringParser.__init__: a StringParser object has been constructed.
Init ==
    /\ cls = "StringParser"
    /\ converters \in ConverterLists
    /\ only_values \in BOOLEAN
    /\ fail_on_error \in BOOLEAN
    /\ min = <<>>
    /\ max = <<>>
    /\ Idle
    /\ Built
    /\ Quiet

\* VariadicArgs.__init__: a VariadicArgs object has been constructed; it
\* passes only_values=False and leaves fail_on_error at its default False.
VariadicInit ==
    /\ cls = "VariadicArgs"
    /\ converters \in ConverterLists
    /\ only_values = FALSE
    /\ fail_on_error = FALSE
    /\ min \in OptInts
    /\ max \in OptInts
    /\ Idle
    /\ Built
    /\ Quiet

\* --------------------------------------------------- _run_converters logic
\* Faulty variant: the loop never breaks on a converted value.
NeverBreak(cv) == FALSE

\* "if converted_value: break"
ShouldBreak(cv) == Truthy(cv)

\* converted_value after one try/except around the converter call
NextConverted(cv, r) == IF r.raised THEN cv ELSE r.value

\* Faulty variant: only the first raised error is kept.
KeepFirstError(err, r) ==
    IF r.raised /\ err = NoError THEN r.error ELSE err

\* error after one try/except around the converter call
NextError(err, r) == IF r.raised THEN r.error ELSE err

\* ---------------------------------------------- StringParser.transform logic
\* Faulty variant: the success dict is rebuilt instead of updated.
NewSuccessRebuilt(succ, value, converted, converter) ==
    IF Truthy(converted)
    THEN <<[key |-> value, val |-> [value |-> converted, converter |-> converter]]>>
    ELSE succ

NewSuccess(succ, value, converted, converter) ==
    IF Truthy(converted)
    THEN DictSet(succ, value, [value |-> converted, converter |-> converter])
    ELSE succ

\* Faulty variant: the token is filed under failed whether or not it converted.
NewFailedAlways(fl, value, converted, converter) == DictSet(fl, value, converter)

NewFailed(fl, value, converted, converter) ==
    IF Truthy(converted) THEN fl ELSE DictSet(fl, value, converter)

\* "if error:" -- an exception object is truthy, None is not.
NewErrors(errs, value, err) ==
    IF err # NoError THEN DictSet(errs, value, err) ELSE errs

\* Faulty variant: fail_on_error is ignored.
ParsingFailsOnAnyFailure(succ, fl, foe) == succ = <<>> \/ fl # <<>>

\* "if not success or self.fail_on_error and failed"
ParsingFails(succ, fl, foe) == succ = <<>> \/ (foe /\ fl # <<>>)

ParsingFailed(errs) ==
    [kind |-> "ParsingFailed", success |-> <<>>, failed |-> <<>>,
     errors |-> errs, values |-> <<>>, what |-> ""]

ParseResult(succ, fl, errs) ==
    [kind |-> "ParseResult", success |-> succ, failed |-> fl, errors |-> errs,
     values |-> Converted(succ), what |-> ""]

SequenceProxy(vals) ==
    [kind |-> "SequenceProxy", success |-> <<>>, failed |-> <<>>,
     errors |-> <<>>, values |-> vals, what |-> ""]

\* what StringParser.transform raises or returns once the loop is over
ParseOutcome(succ, fl, errs, foe, ov) ==
    IF ParsingFails(succ, fl, foe) THEN ParsingFailed(errs)
    ELSE IF ov THEN SequenceProxy(Converted(succ))
    ELSE ParseResult(succ, fl, errs)

\* ---------------------------------------------- VariadicArgs.transform logic
\* "not arguments or self.min and len(arguments) < self.min
\*  or self.max and len(arguments) > self.max"
OutOfBounds(arguments, mn, mx) ==
    \/ arguments = <<>>
    \/ OptTruthy(mn) /\ Len(arguments) < mn[1]
    \/ OptTruthy(mx) /\ Len(arguments) > mx[1]

\* InvalidVariadicArguments.__init__: the word that opens the message
What(received, mn, mx) ==
    IF OptTruthy(mn) /\ Len(received) < mn[1] THEN "Too few"
    ELSE IF OptTruthy(mx) /\ Len(received) > mx[1] THEN "Too many"
    ELSE "Too few"

InvalidVariadicArguments(received, mn, mx) ==
    [kind |-> "InvalidVariadicArguments", success |-> <<>>, failed |-> <<>>,
     errors |-> <<>>, values |-> <<>>, what |-> What(received, mn, mx)]

VariadicArgsFailed(errs) ==
    [kind |-> "VariadicArgsFailed", success |-> <<>>, failed |-> <<>>,
     errors |-> errs, values |-> <<>>, what |-> ""]

\* "not res.success or res.failed or len(res.success) != len(arguments)"
Incomplete(r, arguments) ==
    \/ r.success = <<>>
    \/ r.failed # <<>>
    \/ Len(r.success) # Len(arguments)

VariadicOutcome(r, arguments, mn, mx) ==
    IF r.kind = "ParsingFailed" THEN VariadicArgsFailed(r.errors)
    ELSE IF OutOfBounds(arguments, mn, mx)
         THEN InvalidVariadicArguments(arguments, mn, mx)
    ELSE IF Incomplete(r, arguments) THEN VariadicArgsFailed(r.errors)
    ELSE SequenceProxy(r.values)

\* --------------------------------------------------------------- actions
\* The host calls transform(interaction, argument) on the parser.
Transform(arg) ==
    /\ pc = "idle"
    /\ argument' = arg
    /\ values' = Split(arg)
    /\ i' = 1
    /\ success' = <<>>
    /\ failed' = <<>>
    /\ value_errors' = <<>>
    /\ calls' = <<>>
    /\ pc' = "for"
    /\ UNCHANGED <<config, construction, concurrent, locals, res, result>>

\* for value in argument.split(...): enter _run_converters for the token.
RunConverters ==
    /\ pc = "for"
    /\ i <= Len(values)
    /\ j' = 1
    /\ converted_value' = NoneVal
    /\ used_converter' = "None"
    /\ error' = NoError
    /\ pc' = "convert"
    /\ UNCHANGED <<config, construction, concurrent, argument, values, i, dicts, res, result, calls>>

\* One iteration of _run_converters' loop: one awaited converter call.
Convert ==
    /\ pc = "convert"
    /\ j <= Len(converters)
    /\ ~ShouldBreak(converted_value)
    /\ LET r == Invoke(converters[j], values[i], j) IN
        /\ used_converter' = converters[j]
        /\ converted_value' = NextConverted(converted_value, r)
        /\ error' = NextError(error, r)
        /\ calls' = Append(calls, [token |-> i, converter |-> j, raised |-> r.raised])
    /\ j' = j + 1
    /\ UNCHANGED <<config, construction, concurrent, pc, argument, values, i, dicts, res, result>>

\* _run_converters returns; transform files the token under success/failed/errors.
Collect ==
    /\ pc = "convert"
    /\ j > Len(converters) \/ ShouldBreak(converted_value)
    /\ success' = NewSuccess(success, values[i], converted_value, used_converter)
    /\ failed' = NewFailed(failed, values[i], converted_value, used_converter)
    /\ value_errors' = NewErrors(value_errors, values[i], error)
    /\ i' = i + 1
    /\ pc' = "for"
    /\ UNCHANGED <<config, construction, concurrent, argument, values, locals, res, result, calls>>

\* The loop is over: StringParser.transform raises ParsingFailed or returns.
FinishParse ==
    /\ pc = "for"
    /\ i > Len(values)
    /\ res' = ParseOutcome(success, failed, value_errors, fail_on_error, only_values)
    /\ result' = IF cls = "StringParser" THEN res' ELSE result
    /\ pc' = IF cls = "StringParser" THEN "done" ELSE "variadic"
    /\ UNCHANGED <<config, construction, concurrent, argument, values, i, dicts, locals, calls>>

\* VariadicArgs.transform after super().transform returned or raised.
VariadicCheck ==
    /\ pc = "variadic"
    /\ result' = VariadicOutcome(res, Split(argument), min, max)
    /\ pc' = "done"
    /\ UNCHANGED <<config, construction, concurrent, argument, values, i, dicts, locals, res, calls>>

\* The call is over; its locals are discarded and the parser is idle again.
Return ==
    /\ pc = "done"
    /\ pc' = "idle"
    /\ argument' = <<>>
    /\ values' = <<>>
    /\ i' = 0
    /\ success' = <<>>
    /\ failed' = <<>>
    /\ value_errors' = <<>>
    /\ j' = 0
    /\ converted_value' = NoneVal
    /\ used_converter' = "None"
    /\ error' = NoError
    /\ res' = NoResult
    /\ result' = NoResult
    /\ calls' = <<>>
    /\ UNCHANGED <<config, construction, concurrent>>

\* A StringParser object serving calls.
Next ==
    \/ \E arg \in Arguments : Transform(arg)
    \/ RunConverters
    \/ Convert
    \/ Collect
    \/ FinishParse
    \/ Return

Spec == Init /\ [][Next]_vars

\* A VariadicArgs object serving calls.
VariadicNext ==
    \/ \E arg \in Arguments : Transform(arg)
    \/ RunConverters
    \/ Convert
    \/ Collect
    \/ FinishParse
    \/ VariadicCheck
    \/ Return

VariadicSpec == VariadicInit /\ [][VariadicNext]_vars

\* ------------------------------------------------ construction of a parser
\* StringParser.__init__ has been entered with a converters list.
NormalizeInit ==
    /\ cls = "StringParser"
    /\ converters = <<>>
    /\ only_values = FALSE
    /\ fail_on_error = FALSE
    /\ min = <<>>
    /\ max = <<>>
    /\ pc = "new"
    /\ NoCall
    /\ descriptors \in DescriptorLists
    /\ valid_converters = <<>>
    /\ normalized = <<>>
    /\ Quiet

\* One pass of _get_converters' loop; an unsupported item raises TypeError
\* and no parser is built.
GetConvertersItem ==
    /\ pc = "new"
    /\ Len(normalized) < Len(descriptors)
    /\ LET r == ItemConverters(descriptors[Len(normalized) + 1]) IN
        IF r.ok
        THEN /\ valid_converters' = valid_converters \o r.out
             /\ normalized' = Append(normalized, r.out)
             /\ pc' = pc
        ELSE /\ pc' = "TypeError"
             /\ UNCHANGED <<valid_converters, normalized>>
    /\ UNCHANGED <<config, descriptors, argument, values, i, dicts, locals, res,
                   result, calls, concurrent>>

\* _get_converters returns; __init__ stores the list in self.converters.
GetConvertersReturn ==
    /\ pc = "new"
    /\ Len(normalized) = Len(descriptors)
    /\ converters' = valid_converters
    /\ pc' = "idle"
    /\ UNCHANGED <<cls, only_values, fail_on_error, min, max, construction,
                   argument, values, i, dicts, locals, res, result, calls,
                   concurrent>>

NormalizeNext ==
    \/ GetConvertersItem
    \/ GetConvertersReturn

NormalizeSpec == NormalizeInit /\ [][NormalizeNext]_vars

\* -------------------------------------- concurrent calls on one parser
\* The words and the arguments of the concurrent calls.
CallWords == {<<"1">>, <<"x">>}

RECURSIVE CallWordSeqsOfLen(_)
CallWordSeqsOfLen(n) ==
    IF n = 0 THEN {<<>>}
    ELSE {Append(ws, w) : ws \in CallWordSeqsOfLen(n - 1), w \in CallWords}

CallArguments ==
    {Join(ws) : ws \in UNION {CallWordSeqsOfLen(n) : n \in 1..MaxCallTokens}}

\* Faulty variant: the dicts live on the parser, one set for every call.
SharedDicts(c) == 1

\* success, failed and errors are locals of transform: each invocation's
\* frame holds its own.
DictsOf(c) == c

\* The frame on entering _run_converters for token number n.
EnterRunConverters(f, n) ==
    [f EXCEPT !.i = n, !.j = 1, !.converted_value = NoneVal,
              !.used_converter = "None", !.error = NoError, !.pc = "await"]

\* The frame after the awaited converter call completed.
Resumed(c) ==
    LET f == frames[c]
        r == Invoke(converters[f.j], f.values[f.i], f.j)
    IN [f EXCEPT !.used_converter = converters[f.j],
                 !.converted_value = NextConverted(f.converted_value, r),
                 !.error = NextError(f.error, r),
                 !.log = Append(f.log, <<f.i, f.j>>),
                 !.overlapped =
                     f.overlapped \/ \E o \in Calls \ {c} : frames[o].pc = "await"]

\* _run_converters' loop goes on to another converter.
LoopGoesOn(f) == f.j < Len(converters) /\ ~ShouldBreak(f.converted_value)

\* The dicts after transform filed the token of frame f.
Filed(d, f) ==
    [success |-> NewSuccess(d.success, f.values[f.i], f.converted_value,
                            f.used_converter),
     failed |-> NewFailed(d.failed, f.values[f.i], f.converted_value,
                          f.used_converter),
     errors |-> NewErrors(d.errors, f.values[f.i], f.error)]

\* A parser object several interactions use at once.
ConcurrentInit ==
    /\ cls = "StringParser"
    /\ converters \in ConverterLists
    /\ only_values \in BOOLEAN
    /\ fail_on_error \in BOOLEAN
    /\ min = <<>>
    /\ max = <<>>
    /\ Idle
    /\ Built
    /\ Quiet

\* An invocation starts and runs up to its first awaited converter call
\* (split always yields a token and the converters list is not empty).
Call(c, arg) ==
    /\ frames[c].pc = "idle"
    /\ frames' = [frames EXCEPT ![c] =
           EnterRunConverters(
               [NoFrame EXCEPT !.argument = arg, !.values = Split(arg),
                               !.self = Self], 1)]
    /\ cdicts' = [cdicts EXCEPT ![DictsOf(c)] = NoDicts]
    /\ UNCHANGED <<config, construction, pc, argument, values, i, dicts, locals,
                   res, result, calls>>

\* The awaited call completes and the loop awaits the next converter.
AwaitNextConverter(c) ==
    /\ frames[c].pc = "await"
    /\ LoopGoesOn(Resumed(c))
    /\ frames' = [frames EXCEPT ![c] = [Resumed(c) EXCEPT !.j = @ + 1]]
    /\ UNCHANGED <<config, construction, pc, argument, values, i, dicts, locals,
                   res, result, calls, cdicts>>

\* The awaited call completes, _run_converters returns, the token is filed
\* and the first converter is awaited for the next token.
AwaitNextToken(c) ==
    /\ frames[c].pc = "await"
    /\ ~LoopGoesOn(Resumed(c))
    /\ frames[c].i < Len(frames[c].values)
    /\ cdicts' = [cdicts EXCEPT ![DictsOf(c)] = Filed(@, Resumed(c))]
    /\ frames' = [frames EXCEPT ![c] =
           EnterRunConverters(Resumed(c), frames[c].i + 1)]
    /\ UNCHANGED <<config, construction, pc, argument, values, i, dicts, locals,
                   res, result, calls>>

\* The awaited call completes, the last token is filed and transform raises
\* ParsingFailed or returns.
Finish(c) ==
    /\ frames[c].pc = "await"
    /\ ~LoopGoesOn(Resumed(c))
    /\ frames[c].i = Len(frames[c].values)
    /\ cdicts' = [cdicts EXCEPT ![DictsOf(c)] = Filed(@, Resumed(c))]
    /\ frames' = [frames EXCEPT ![c] =
           [Resumed(c) EXCEPT
               !.pc = "done",
               !.result = LET d == cdicts'[DictsOf(c)] IN
                   ParseOutcome(d.success, d.failed, d.errors, fail_on_error,
                                only_values)]]
    /\ UNCHANGED <<config, construction, pc, argument, values, i, dicts, locals,
                   res, result, calls>>

ConcurrentNext ==
    \/ \E c \in Calls, arg \in CallArguments : Call(c, arg)
    \/ \E c \in Calls : AwaitNextConverter(c)
    \/ \E c \in Calls : AwaitNextToken(c)
    \/ \E c \in Calls : Finish(c)

ConcurrentSpec == ConcurrentInit /\ [][ConcurrentNext]_vars

\* ------------------------------------------------ vocabulary of the claims
\* A converter accepts a value when it returns a non-empty (truthy) result.
Accepts(converter, value) ==
    LET r == Invoke(converter, value, 1) IN ~r.raised /\ Truthy(r.value)

Convertible(cs, value) == \E k \in 1..Len(cs) : Accepts(cs[k], value)

FirstAccepting(cs, value) ==
    CHOOSE k \in 1..Len(cs) :
        Accepts(cs[k], value) /\ \A m \in 1..(k - 1) : ~Accepts(cs[m], value)

\* The value the first accepting converter produces.
Resolved(cs, value) ==
    Invoke(cs[FirstAccepting(cs, value)], value, FirstAccepting(cs, value)).value

\* _run_converters has returned for token i-1; its triple is still in
\* (converted_value, used_converter, error).
Returned == pc = "for" /\ i > 1
ReturnedFor == values[i - 1]

\* The loop over the tokens is over.
AllProcessed == pc \in {"variadic", "done"} \/ (pc = "for" /\ i > Len(values))

Tokens == {values[p] : p \in 1..Len(values)}
PairwiseDistinct ==
    \A p, q \in 1..Len(values) : p # q => values[p] # values[q]

\* History: positions of the converters invoked for token number p, in order.
InvokedFor(p) ==
    LET mine == SelectSeq(calls, LAMBDA c : c.token = p)
    IN [q \in 1..Len(mine) |-> mine[q].converter]

\* History: the tokens for which some converter raised.
RaisedTokens ==
    {values[calls[q].token] : q \in {n \in 1..Len(calls) : calls[n].raised}}

\* History: the error raised last for token number p, NoError if none was.
LastRaised(p) ==
    LET mine == SelectSeq(calls, LAMBDA c : c.token = p /\ c.raised)
    IN IF mine = <<>> THEN NoError
       ELSE Invoke(converters[mine[Len(mine)].converter], values[p],
                   mine[Len(mine)].converter).error

\* History: the value returned last for token number p, None if none was.
LastReturnedValue(p) ==
    LET mine == SelectSeq(calls, LAMBDA c : c.token = p /\ ~c.raised)
    IN IF mine = <<>> THEN NoneVal
       ELSE Invoke(converters[mine[Len(mine)].converter], values[p],
                   mine[Len(mine)].converter).value

\* The split count lies within [min, max], None being unbounded.
WithinBounds ==
    /\ min = <<>> \/ Len(values) >= min[1]
    /\ max = <<>> \/ Len(values) <= max[1]

FailedTokens == {t \in Tokens : ~Convertible(converters, t)}

VariadicDone == pc = "done" /\ cls = "VariadicArgs"

\* ----------------------------------------------------------------- claims
\* C1: when at least one converter yields a non-empty result for the value,
\* _run_converters returns that non-None value and the converter that
\* produced it, which is the first such converter in list order, and the
\* converters invoked for the value are exactly those up to and including it.
C1_FirstSuccessWins ==
    (Returned /\ Convertible(converters, ReturnedFor)) =>
        LET f == FirstAccepting(converters, ReturnedFor) IN
        /\ converted_value # NoneVal
        /\ converted_value = Invoke(converters[f], ReturnedFor, f).value
        /\ used_converter = converters[f]
        /\ InvokedFor(i - 1) = [q \in 1..f |-> q]

C1_Witness ==
    /\ Returned
    /\ Convertible(converters, ReturnedFor)
    /\ FirstAccepting(converters, ReturnedFor) < Len(converters)

\* C2: whenever some converter produces a non-empty result the third element
\* of the returned triple is None, and the parser's errors mapping holds no
\* entry for a token that was converted.
C2_NoErrorOnSuccess ==
    /\ (Returned /\ Truthy(converted_value)) => error = NoError
    /\ AllProcessed => Keys(value_errors) \cap Keys(success) = {}

\* C3: VariadicArgs.transform returns a result only if the split count lies
\* within [min, max] for every min and max that is set (0 included) and no
\* token failed conversion.
C3_ReturnsOnlyWithinBounds ==
    (VariadicDone /\ result.kind = "SequenceProxy") =>
        WithinBounds /\ FailedTokens = {}

\* C4: when the split count is within [min, max] and every token is
\* convertible, VariadicArgs.transform returns the converted values, one per
\* split token, in split order.
C4_ConvertibleWithinBoundsSucceeds ==
    (VariadicDone /\ WithinBounds /\ FailedTokens = {}) =>
        /\ result.kind = "SequenceProxy"
        /\ result.values = [p \in 1..Len(values) |-> Resolved(converters, values[p])]

\* C5: a split count outside the bounds raises InvalidVariadicArguments itself
\* ("Too few" below min, "Too many" above max); VariadicArgsFailed is raised
\* only when the count is within bounds and some token failed conversion.
C5_ErrorKinds ==
    VariadicDone =>
        /\ ~WithinBounds =>
              /\ result.kind = "InvalidVariadicArguments"
              /\ result.what = IF min # <<>> /\ Len(values) < min[1]
                               THEN "Too few" ELSE "Too many"
        /\ result.kind = "VariadicArgsFailed" =>
              WithinBounds /\ FailedTokens # {}

\* C6: when some but not all tokens fail conversion and the count is within
\* bounds, VariadicArgsFailed is raised and its errors mapping has exactly one
\* entry per failed token, keyed by the token, and none for a converted token.
C6_ErrorsExactlyFailedTokens ==
    (VariadicDone /\ WithinBounds /\ FailedTokens # {} /\ FailedTokens # Tokens) =>
        /\ result.kind = "VariadicArgsFailed"
        /\ Keys(result.errors) = FailedTokens
        /\ Len(result.errors) = Cardinality(FailedTokens)

\* C7: StringParser.transform raises ParsingFailed exactly when the success
\* mapping is empty, or fail_on_error is set and the failed mapping is not
\* empty; the error carries the errors mapping collected during the call, with
\* an entry for every token a converter raised on; otherwise it returns a
\* ParseResult, or only the converted values when only_values is set.
C7_ParsingFailedIff ==
    pc \in {"variadic", "done"} =>
        /\ res.kind = "ParsingFailed" <=>
              (success = <<>> \/ (fail_on_error /\ failed # <<>>))
        /\ res.kind = "ParsingFailed" =>
              res.errors = value_errors /\ Keys(res.errors) = RaisedTokens
        /\ res.kind # "ParsingFailed" =>
              /\ res.kind = IF only_values THEN "SequenceProxy" ELSE "ParseResult"
              /\ res.values = Converted(success)
              /\ res.kind = "ParseResult" =>
                    /\ res.success = success
                    /\ res.failed = failed
                    /\ res.errors = value_errors

C7_Witness ==
    /\ pc = "done"
    /\ cls = "StringParser"
    /\ res.kind = "ParsingFailed"
    /\ success # <<>>
    /\ fail_on_error
    /\ failed # <<>>
    /\ res.errors # <<>>

\* C8: once every token is processed, each distinct token is a key of exactly
\* one of success and failed, and a token is a key of errors only if some
\* converter raised while converting it.
C8_ExactlyOneOfSuccessFailed ==
    AllProcessed =>
        /\ \A t \in Tokens : (t \in Keys(success)) # (t \in Keys(failed))
        /\ Keys(success) \cup Keys(failed) = Tokens
        /\ Len(success) = Cardinality(Keys(success))
        /\ Len(failed) = Cardinality(Keys(failed))
        /\ Keys(value_errors) \subseteq RaisedTokens

C8_Witness ==
    /\ AllProcessed
    /\ ~PairwiseDistinct
    /\ success # <<>>
    /\ failed # <<>>
    /\ value_errors # <<>>

\* C9 as stated: if every converter of a non-empty list fails for the value,
\* the returned triple is (None, last converter, most recently raised error).
C9_AllFailReturnsNone ==
    (Returned /\ converters # <<>> /\ ~Convertible(converters, ReturnedFor)) =>
        /\ converted_value = NoneVal
        /\ used_converter = converters[Len(converters)]
        /\ error = LastRaised(i - 1)

\* C9 amended: if every converter of a non-empty list fails for the value,
\* the returned triple is (v, last converter, most recently raised error or
\* None if none raised), where v is falsy: None if no converter returned,
\* else the falsy result of the last converter that returned; the parser
\* files the token under failed, never under success.
C9_AllFailReturnsFalsy ==
    (Returned /\ converters # <<>> /\ ~Convertible(converters, ReturnedFor)) =>
        /\ ~Truthy(converted_value)
        /\ converted_value = LastReturnedValue(i - 1)
        /\ used_converter = converters[Len(converters)]
        /\ error = LastRaised(i - 1)
        /\ InvokedFor(i - 1) = [q \in 1..Len(converters) |-> q]
        /\ ReturnedFor \in Keys(failed)
        /\ ReturnedFor \notin Keys(success)

C9_Witness ==
    /\ Returned
    /\ Len(converters) >= 2
    /\ ~Convertible(converters, ReturnedFor)
    /\ converted_value # NoneVal
    /\ error # NoError

\* C10: for an argument that splits into N pairwise distinct tokens, each
\* convertible, the success mapping has exactly N entries, one per token with
\* that token's converted value and converter, and the failed mapping is empty.
C10_AllConvertibleAllSucceed ==
    (AllProcessed /\ PairwiseDistinct /\ FailedTokens = {}) =>
        /\ Len(success) = Len(values)
        /\ \A p \in 1..Len(values) : \E q \in 1..Len(success) :
              success[q] =
                  [key |-> values[p],
                   val |-> [value |-> Resolved(converters, values[p]),
                            converter |->
                                converters[FirstAccepting(converters, values[p])]]]
        /\ failed = <<>>

C10_Witness ==
    /\ AllProcessed
    /\ Len(values) >= 2
    /\ PairwiseDistinct
    /\ FailedTokens = {}
    /\ \E p \in 1..Len(values) : InvokedFor(p) = <<1, 2>>

\* ------------------------------------------------------- claims, normalizer
MemberSet(d) == {d[p] : p \in 1..Len(d)}

\* The types a converter of the mentionable triple stands for; the member
\* converter is also what the option type of a user maps to.
KindsOf(converter) ==
    IF converter = "MemberConverter" THEN {"Member", "User"}
    ELSE IF converter = "RoleConverter" THEN {"Role"}
    ELSE {"User"}

\* C11: a union descriptor contributes exactly (member, role, user), in that
\* order, exactly when it is the member-or-role or the user-or-role union,
\* whatever the order of its members; any other union contributes the
\* converters of its member types in member order, and no member, role or
\* user converter whose type is not among its members.
C11_UnionCollapse ==
    \A p \in 1..Len(normalized) :
        LET d == descriptors[p] IN
        Len(d) >= 2 =>
            IF MemberSet(d) \in {{"Member", "Role"}, {"User", "Role"}}
            THEN normalized[p] = MentionableConverters
            ELSE /\ normalized[p] = UnionConverters(d).out
                 /\ \A q \in 1..Len(normalized[p]) :
                       normalized[p][q] \in MemberSet(MentionableConverters) =>
                           KindsOf(normalized[p][q]) \cap MemberSet(d) # {}

\* ------------------------------------------------- claims, concurrent calls
\* _run_converters run without interruption from converter number n on.
RECURSIVE RunConvertersAlone(_, _, _, _, _)
RunConvertersAlone(value, n, cv, used, err) ==
    IF n > Len(converters) \/ ShouldBreak(cv)
    THEN [converted_value |-> cv, used_converter |-> used, error |-> err]
    ELSE LET r == Invoke(converters[n], value, n) IN
         RunConvertersAlone(value, n + 1, NextConverted(cv, r), converters[n],
                            NextError(err, r))

\* The dicts of a transform that runs without interruption from token n on.
RECURSIVE TransformAlone(_, _, _)
TransformAlone(vals, n, d) ==
    IF n > Len(vals) THEN d
    ELSE LET r == RunConvertersAlone(vals[n], 1, NoneVal, "None", NoError) IN
         TransformAlone(vals, n + 1,
             [success |-> NewSuccess(d.success, vals[n], r.converted_value,
                                     r.used_converter),
              failed |-> NewFailed(d.failed, vals[n], r.converted_value,
                                   r.used_converter),
              errors |-> NewErrors(d.errors, vals[n], r.error)])

AloneDicts(arg) == TransformAlone(Split(arg), 1, NoDicts)

AloneOutcome(arg) ==
    LET d == AloneDicts(arg) IN
    ParseOutcome(d.success, d.failed, d.errors, fail_on_error, only_values)

\* The awaited calls of a frame go through its tokens in split order and,
\* for one token, through the converters in list order.
InSplitOrder(f) ==
    /\ \A p \in 1..Len(f.log) - 1 :
          \/ f.log[p + 1] = <<f.log[p][1], f.log[p][2] + 1>>
          \/ f.log[p + 1] = <<f.log[p][1] + 1, 1>>
    /\ f.log # <<>> => f.log[1] = <<1, 1>>
    /\ f.pc = "done" => f.log[Len(f.log)][1] = Len(f.values)

\* C12: of two invocations on one parser that interleave at the awaited
\* converter calls, each goes through its own tokens in split order, owns its
\* success / failed / errors mappings, ends with the outcome and the mappings
\* it would have if run alone, and leaves the parser's configuration as it
\* found it.
C12_Isolation ==
    \A c \in Calls :
        LET f == frames[c] IN
        /\ f.pc # "idle" =>
              /\ f.values = Split(f.argument)
              /\ InSplitOrder(f)
              /\ f.self = Self
        /\ f.pc = "done" =>
              /\ f.result = AloneOutcome(f.argument)
              /\ cdicts[c] = AloneDicts(f.argument)

\* Both invocations are over, each was resumed while the other was suspended,
\* and they parsed different arguments of two tokens, one of which failed.
C12_Witness ==
    /\ \A c \in Calls :
          /\ frames[c].pc = "done"
          /\ frames[c].overlapped
          /\ Len(frames[c].values) = 2
          /\ cdicts[c].failed # <<>>
          /\ cdicts[c].success # <<>>
    /\ frames[1].argument # frames[2].argument

=============================================================================
